---- MODULE Spec2Model ----
(***************************************************************************)
(* Model of src/app.py: a Streamlit dashboard script.  One render is one   *)
(* top-to-bottom execution of the script; it calls get_historical_aqi,     *)
(* get_pollution_data and (conditionally) get_traffic_data, each of which  *)
(* issues blocking HTTP GET requests and branches on the JSON shape.       *)
(*                                                                         *)
(* Encoding of Python values                                               *)
(*   None            <<>>            (Some(v) is <<v>>)                    *)
(*   dict            record; 'k' in d  is  "k" \in DOMAIN d                *)
(*   list/DataFrame  sequence of records (rows)                            *)
(*   requests.get(..).json()  either [exc |-> name] (the call raised) or   *)
(*                            [json |-> dict]                              *)
(*   float degrees   integer hundredths of a degree (0.01 is 1)            *)
(*   float seconds   integer milliseconds; percent is hundredths of a      *)
(*                   percent (fixed point instead of IEEE doubles)         *)
(*   date string     [iso |-> k]; pandas Timestamp [datetime |-> k]        *)
(***************************************************************************)
EXTENDS Integers, Sequences, FiniteSets, TLC

VARIABLES pc, render_no, city,
          current_aqi, historical_aqi_df, components, lat, lon,
          traffic_info, last_7_days, chart_df, shown,
          frame, errors, sent, inflight, resp, calls, exception,
          prev_had_traffic

vars == <<pc, render_no, city,
          current_aqi, historical_aqi_df, components, lat, lon,
          traffic_info, last_7_days, chart_df, shown,
          frame, errors, sent, inflight, resp, calls, exception,
          prev_had_traffic>>

(* ------------------------------ bounds --------------------------------- *)
MaxRenders == 2
MaxEntries == 16

(* ------------------------- Python value helpers ------------------------ *)
None == <<>>
Some(v) == <<v>>
EmptyDataFrame == <<>>
Min(a, b) == IF a < b THEN a ELSE b
Max(a, b) == IF a > b THEN a ELSE b

(* ------------------------- program constants --------------------------- *)
indian_cities ==
  {"Delhi", "Mumbai", "Bangalore", "Kolkata", "Chennai",
   "Hyderabad", "Ahmedabad", "Pune", "Jaipur", "Lucknow"}

Endpoints == {"feed", "weather", "air_pollution", "directions"}

Msg(text) == [text |-> text, detail |-> ""]
CityNotFoundMsg == Msg("City not found or invalid API key.")
\* mutant: the pollution branch reuses the geocode message
PollutionUnavailableMsgReused == Msg("City not found or invalid API key.")
PollutionUnavailableMsg == Msg("Pollution data not available for the selected city.")
NoRouteMsg == Msg("No route found in the API response.")
AqiFailedMsg == Msg("Failed to fetch historical AQI data.")
UnableMsg == Msg("Unable to fetch data for the selected city. Please try again later.")
TrafficFailedMsg(e) == [text |-> "Failed to retrieve traffic data: ", detail |-> e]

(* outcome of running (a part of) a Python function *)
Return(v, errs) == [raised |-> None, ret |-> Some(v), errs |-> errs]
Raise(e)        == [raised |-> Some(e), ret |-> None, errs |-> <<>>]

(* ------------------------- upstream responses -------------------------- *)
\* daily PM2.5 forecast lists: n entries, days ascending or descending
PM25Entry(k) == [day |-> [iso |-> k], avg |-> 40 + ((k * 37) % 90)]
PM25List(n, ord) ==
  [i \in 1..n |-> PM25Entry(IF ord = "asc" THEN i ELSE n + 1 - i)]
PM25Lists == {PM25List(n, ord) : n \in 0..MaxEntries, ord \in {"asc", "desc"}}

AqiResponses ==
  {[exc |-> "ConnectionError"]}
  \cup {[json |-> [message |-> "rate limited"]]}
  \cup {[json |-> [status |-> "error", message |-> "Unknown station"]]}
  \cup {[json |-> [status |-> "ok", data |-> [aqi |-> 152]]]}
  \cup {[json |-> [status |-> "ok",
                   data |-> [aqi |-> a, forecast |-> [daily |-> [pm25 |-> l]]]]]
          : a \in {42, 152}, l \in PM25Lists}

GeocodeResponses ==
  {[exc |-> "ConnectionError"],
   [json |-> [cod |-> 404]],
   [json |-> [coord |-> [lon |-> 7720]]],
   [json |-> [coord |-> [lat |-> 2860, lon |-> 7720]]],
   [json |-> [coord |-> [lat |-> 1908, lon |-> 7288]]]}

PollutionResponses ==
  {[exc |-> "ConnectionError"],
   [json |-> [cod |-> 401]],
   [json |-> [list |-> <<>>]],
   [json |-> [list |-> <<[dt |-> 1]>>]],
   [json |-> [list |-> <<[components |-> [pm2_5 |-> 452, co |-> 2001]]>>]],
   [json |-> [list |-> <<[components |-> [co |-> 3100]],
                         [components |-> [pm2_5 |-> 452, co |-> 2001]]>>]]}

RouteFeature(d, m) ==
  [properties |-> [summary |-> [duration |-> d, distance |-> m]]]
RoutingResponses ==
  {[exc |-> "ConnectionError"],
   [exc |-> "JSONDecodeError"],
   [json |-> [error |-> "quota"]],
   [json |-> [features |-> <<>>]],
   [json |-> [features |-> <<[properties |-> [segments |-> 0]]>>]]}
  \cup {[json |-> [features |-> <<RouteFeature(d, m)>>]]
          : d \in {0, 90, 200}, m \in {0, 1000, 1500}}

(* ------------------------- get_historical_aqi -------------------------- *)
\* mutant: rows are prepended (aqi_data.insert(0, ..)), reversing the order
BuildAqiDataReversed(historical_data) ==
  [i \in 1..Len(historical_data) |->
     [timestamp |-> historical_data[Len(historical_data) + 1 - i].day,
      aqi |-> historical_data[Len(historical_data) + 1 - i].avg]]

\* lines 100-104
BuildAqiData(historical_data) ==
  [i \in 1..Len(historical_data) |->
     [timestamp |-> historical_data[i].day, aqi |-> historical_data[i].avg]]

get_historical_aqi(response) ==
  IF "exc" \in DOMAIN response THEN Raise(response.exc)
  ELSE LET j == response.json IN
    IF "status" \notin DOMAIN j THEN Raise("KeyError")
    ELSE IF j.status = "ok" THEN
      IF \/ "data" \notin DOMAIN j
         \/ "aqi" \notin DOMAIN j.data
         \/ "forecast" \notin DOMAIN j.data
      THEN Raise("KeyError")
      ELSE Return([current_aqi |-> Some(j.data.aqi),
                   df |-> BuildAqiData(j.data.forecast.daily.pm25)], <<>>)
    ELSE Return([current_aqi |-> None, df |-> EmptyDataFrame],
                <<AqiFailedMsg>>)

(* ------------------------- get_pollution_data -------------------------- *)
\* first half: lines 28-34 and the else branch 46-48
PollutionAbsent == [components |-> None, lat |-> None, lon |-> None]

GeocodeStep(city_response) ==
  IF "exc" \in DOMAIN city_response THEN Raise(city_response.exc)
  ELSE LET j == city_response.json IN
    IF "coord" \in DOMAIN j THEN
      IF "lat" \notin DOMAIN j.coord \/ "lon" \notin DOMAIN j.coord
      THEN Raise("KeyError")
      ELSE [raised |-> None, ret |-> None, errs |-> <<>>,
            lat |-> j.coord.lat, lon |-> j.coord.lon]
    ELSE Return(PollutionAbsent, <<CityNotFoundMsg>>)

\* mutant: the else branch returns None, lat, lon
PollutionStepPartial(la, lo, pollution_response) ==
  IF "exc" \in DOMAIN pollution_response THEN Raise(pollution_response.exc)
  ELSE LET j == pollution_response.json IN
    IF "list" \in DOMAIN j /\ Len(j.list) > 0 THEN
      IF "components" \notin DOMAIN j.list[1] THEN Raise("KeyError")
      ELSE Return([components |-> Some(j.list[1].components),
                   lat |-> Some(la), lon |-> Some(lo)], <<>>)
    ELSE Return([components |-> None, lat |-> Some(la), lon |-> Some(lo)],
                <<PollutionUnavailableMsg>>)

\* second half: lines 37-45
PollutionStep(la, lo, pollution_response) ==
  IF "exc" \in DOMAIN pollution_response THEN Raise(pollution_response.exc)
  ELSE LET j == pollution_response.json IN
    IF "list" \in DOMAIN j /\ Len(j.list) > 0 THEN
      IF "components" \notin DOMAIN j.list[1] THEN Raise("KeyError")
      ELSE Return([components |-> Some(j.list[1].components),
                   lat |-> Some(la), lon |-> Some(lo)], <<>>)
    ELSE Return(PollutionAbsent, <<PollutionUnavailableMsg>>)

(* -------------------------- get_traffic_data --------------------------- *)
\* mutant: start and end are formatted "lat,lon"
TrafficRequestParamsLatLon(la, lo) ==
  [ep |-> "directions", start |-> <<la, lo>>, end |-> <<la + 1, lo + 1>>]

\* lines 52-60; ORS expects (lon, lat)
TrafficRequestParams(la, lo) ==
  [ep |-> "directions", start |-> <<lo, la>>, end |-> <<lo + 1, la + 1>>]

\* (distance / 1000) / 50 * 3600 seconds, in milliseconds
ExpectedDuration(distance) == distance * 72

\* mutant: a zero divisor yields a number (as numpy floats would) instead of raising
DivideByZeroQuiet(duration_ms) == Return(0, <<>>)

\* the division on line 75 when expected_duration is 0
DivideByZero(duration_ms) == Raise("ZeroDivisionError")

Congestion(duration_ms, expected_ms) ==
  IF expected_ms = 0 THEN DivideByZero(duration_ms)
  ELSE Return(((duration_ms - expected_ms) * 10000) \div expected_ms, <<>>)

\* body of the try block, lines 63-85
TrafficTry(response) ==
  IF "exc" \in DOMAIN response THEN Raise(response.exc)
  ELSE LET j == response.json IN
    IF "features" \in DOMAIN j /\ Len(j.features) > 0 THEN
      LET properties == j.features[1].properties IN
      IF "summary" \notin DOMAIN properties THEN Raise("KeyError")
      ELSE LET summary == properties.summary
               duration == summary.duration * 1000
               distance == summary.distance
               expected_duration == ExpectedDuration(distance)
               c == Congestion(duration, expected_duration)
           IN IF c.raised # None THEN c
              ELSE Return(Some([duration |-> duration,
                                distance |-> distance,
                                expected_duration |-> expected_duration,
                                congestion |-> c.ret[1]]), <<>>)
    ELSE Return(None, <<NoRouteMsg>>)

\* mutant: the handler is missing and the exception propagates
TrafficExceptMissing(o) == o

\* except Exception as e, lines 86-88
TrafficExcept(o) ==
  IF o.raised # None THEN Return(None, <<TrafficFailedMsg(o.raised[1])>>)
  ELSE o

get_traffic_data(response) == TrafficExcept(TrafficTry(response))

(* ----------------------------- presentation ---------------------------- *)
to_datetime(x) == IF "iso" \in DOMAIN x THEN [datetime |-> x.iso] ELSE x

ConvertTimestamps(df) ==
  [i \in 1..Len(df) |-> [df[i] EXCEPT !.timestamp = to_datetime(@)]]

\* df.iloc[-7:]
Last7(df) == SubSeq(df, Max(1, Len(df) - 6), Len(df))

\* current_aqi > 100 on lines 212 and 248
AqiColor(aqi) ==
  IF aqi = None THEN Raise("TypeError")
  ELSE Return(IF aqi[1] > 100 THEN "red" ELSE "green", <<>>)

Tag(fn, msgs) == [i \in 1..Len(msgs) |-> [fn |-> fn, msg |-> msgs[i]]]
Ev(e, fn) == [ev |-> e, fn |-> fn]

(* -------------------------------- state -------------------------------- *)
NoResp == [e \in Endpoints |-> None]

Init ==
  /\ pc = "idle"
  /\ render_no = 0
  /\ city = "Delhi"
  /\ current_aqi = None
  /\ historical_aqi_df = EmptyDataFrame
  /\ components = None
  /\ lat = None
  /\ lon = None
  /\ traffic_info = None
  /\ last_7_days = None
  /\ chart_df = None
  /\ shown = {}
  /\ frame = None
  /\ errors = <<>>
  /\ sent = <<>>
  /\ inflight = {}
  /\ resp = NoResp
  /\ calls = <<>>
  /\ exception = None
  /\ prev_had_traffic = FALSE


(* ------------------------------- actions ------------------------------- *)
Terminal == pc \in {"idle", "done", "aborted"}

\* an uncaught exception unwinds the script: the render stops where it is
Abort(e, line) ==
  /\ pc' = "aborted"
  /\ exception' = Some([type |-> e, line |-> line])

\* mutant: results are kept between reruns (as with st.session_state) and
\* only overwritten by the calls the new run makes
NewRenderKeepsResults(c) ==
  /\ pc \in {"idle", "done", "aborted"}
  /\ render_no < MaxRenders
  /\ render_no' = render_no + 1
  /\ pc' = "aqi_call"
  /\ city' = c
  /\ shown' = {}
  /\ frame' = None
  /\ errors' = <<>>
  /\ sent' = <<>>
  /\ inflight' = {}
  /\ resp' = NoResp
  /\ calls' = <<>>
  /\ exception' = None
  /\ prev_had_traffic' = (traffic_info # None)
  /\ UNCHANGED <<current_aqi, historical_aqi_df, components, lat, lon,
                 traffic_info, last_7_days, chart_df>>

\* Streamlit executes the script from the top in a fresh namespace:
\* a (re)run with the selectbox value `c`
NewRender(c) ==
  /\ Terminal
  /\ render_no < MaxRenders
  /\ render_no' = render_no + 1
  /\ pc' = "aqi_call"
  /\ city' = c
  /\ current_aqi' = None
  /\ historical_aqi_df' = EmptyDataFrame
  /\ components' = None
  /\ lat' = None
  /\ lon' = None
  /\ traffic_info' = None
  /\ last_7_days' = None
  /\ chart_df' = None
  /\ shown' = {}
  /\ frame' = None
  /\ errors' = <<>>
  /\ sent' = <<>>
  /\ inflight' = {}
  /\ resp' = NoResp
  /\ calls' = <<>>
  /\ exception' = None
  /\ prev_had_traffic' = (traffic_info # None)

StartRender == \E c \in indian_cities : NewRender(c)

\* line 161 -> line 94: requests.get(url) is issued and blocks
AqiRequest ==
  /\ pc = "aqi_call"
  /\ pc' = "aqi_wait"
  /\ calls' = Append(calls, Ev("call", "get_historical_aqi"))
  /\ sent' = Append(sent, [ep |-> "feed", city |-> city])
  /\ inflight' = inflight \cup {"feed"}
  /\ UNCHANGED <<render_no, city, current_aqi, historical_aqi_df, components,
                 lat, lon, traffic_info, last_7_days, chart_df, shown, frame,
                 errors, resp, exception, prev_had_traffic>>

\* lines 94-110 and the assignment on line 161
AqiReturn(response) ==
  LET o == get_historical_aqi(response) IN
  /\ pc = "aqi_wait"
  /\ inflight' = inflight \ {"feed"}
  /\ resp' = [resp EXCEPT !["feed"] = Some(response)]
  /\ errors' = errors \o Tag("get_historical_aqi", o.errs)
  /\ IF o.raised # None
     THEN /\ Abort(o.raised[1], 161)
          /\ calls' = Append(calls, Ev("raise", "get_historical_aqi"))
          /\ UNCHANGED <<current_aqi, historical_aqi_df>>
     ELSE /\ pc' = "geocode_call"
          /\ calls' = Append(calls, Ev("return", "get_historical_aqi"))
          /\ current_aqi' = o.ret[1].current_aqi
          /\ historical_aqi_df' = o.ret[1].df
          /\ UNCHANGED exception
  /\ UNCHANGED <<render_no, city, components, lat, lon, traffic_info,
                 last_7_days, chart_df, shown, frame, sent, prev_had_traffic>>

AqiResponse == \E r \in AqiResponses : AqiReturn(r)

\* line 162 -> line 29
GeocodeRequest ==
  /\ pc = "geocode_call"
  /\ pc' = "geocode_wait"
  /\ calls' = Append(calls, Ev("call", "get_pollution_data"))
  /\ sent' = Append(sent, [ep |-> "weather", q |-> city])
  /\ inflight' = inflight \cup {"weather"}
  /\ UNCHANGED <<render_no, city, current_aqi, historical_aqi_df, components,
                 lat, lon, traffic_info, last_7_days, chart_df, shown, frame,
                 errors, resp, exception, prev_had_traffic>>

\* mutant: an unresolved city is looked up again
AfterGeocodeRetry(o) ==
  IF o.raised # None THEN "aborted"
  ELSE IF o.ret # None THEN "geocode_call"
  ELSE "pollution_call"

\* where get_pollution_data goes after the geocode response is handled
AfterGeocode(o) ==
  IF o.raised # None THEN "aborted"
  ELSE IF o.ret # None THEN "sidebar"
  ELSE "pollution_call"

\* lines 29-34, 46-48
GeocodeReturn(response) ==
  LET o == GeocodeStep(response) IN
  /\ pc = "geocode_wait"
  /\ inflight' = inflight \ {"weather"}
  /\ resp' = [resp EXCEPT !["weather"] = Some(response)]
  /\ errors' = errors \o Tag("get_pollution_data", o.errs)
  /\ pc' = AfterGeocode(o)
  /\ IF o.raised # None
     THEN /\ exception' = Some([type |-> o.raised[1], line |-> 162])
          /\ calls' = Append(calls, Ev("raise", "get_pollution_data"))
          /\ UNCHANGED <<components, lat, lon, frame>>
     ELSE IF o.ret # None
     THEN /\ calls' = Append(calls, Ev("return", "get_pollution_data"))
          /\ components' = o.ret[1].components
          /\ lat' = o.ret[1].lat
          /\ lon' = o.ret[1].lon
          /\ UNCHANGED <<exception, frame>>
     ELSE /\ frame' = Some([lat |-> o.lat, lon |-> o.lon])
          /\ UNCHANGED <<exception, calls, components, lat, lon>>
  /\ UNCHANGED <<render_no, city, current_aqi, historical_aqi_df, traffic_info,
                 last_7_days, chart_df, shown, sent, prev_had_traffic>>

GeocodeResponse == \E r \in GeocodeResponses : GeocodeReturn(r)

\* lines 37-38
PollutionRequest ==
  /\ pc = "pollution_call"
  /\ pc' = "pollution_wait"
  /\ sent' = Append(sent, [ep |-> "air_pollution",
                           lat |-> frame[1].lat, lon |-> frame[1].lon])
  /\ inflight' = inflight \cup {"air_pollution"}
  /\ UNCHANGED <<render_no, city, current_aqi, historical_aqi_df, components,
                 lat, lon, traffic_info, last_7_days, chart_df, shown, frame,
                 errors, resp, calls, exception, prev_had_traffic>>

\* lines 38-45 and the assignment on line 162
PollutionReturn(response) ==
  LET o == PollutionStep(frame[1].lat, frame[1].lon, response) IN
  /\ pc = "pollution_wait"
  /\ inflight' = inflight \ {"air_pollution"}
  /\ resp' = [resp EXCEPT !["air_pollution"] = Some(response)]
  /\ errors' = errors \o Tag("get_pollution_data", o.errs)
  /\ frame' = None
  /\ IF o.raised # None
     THEN /\ Abort(o.raised[1], 162)
          /\ calls' = Append(calls, Ev("raise", "get_pollution_data"))
          /\ UNCHANGED <<components, lat, lon>>
     ELSE /\ pc' = "sidebar"
          /\ calls' = Append(calls, Ev("return", "get_pollution_data"))
          /\ components' = o.ret[1].components
          /\ lat' = o.ret[1].lat
          /\ lon' = o.ret[1].lon
          /\ UNCHANGED exception
  /\ UNCHANGED <<render_no, city, current_aqi, historical_aqi_df, traffic_info,
                 last_7_days, chart_df, shown, sent, prev_had_traffic>>

PollutionResponse == \E r \in PollutionResponses : PollutionReturn(r)

\* mutant: df.iloc[:7]
SidebarWindowHead(df) == SubSeq(df, 1, Min(7, Len(df)))

\* line 177
SidebarWindow(df) == Last7(df)

\* lines 164-200: sidebar metrics and the 7-day mini chart

Sidebar ==
  /\ pc = "sidebar"
  /\ pc' = "main"
  /\ IF Len(historical_aqi_df) > 0
     THEN /\ historical_aqi_df' = ConvertTimestamps(historical_aqi_df)
          /\ last_7_days' = Some(SidebarWindow(historical_aqi_df'))
     ELSE UNCHANGED <<historical_aqi_df, last_7_days>>
  /\ shown' = shown
       \cup (IF current_aqi # None THEN {"sidebar_aqi"} ELSE {})
       \cup (IF components # None THEN {"sidebar_pm25"} ELSE {})
       \cup (IF Len(historical_aqi_df) > 0 THEN {"sidebar_trend"} ELSE {})
       \cup {"aqi_levels"}
  /\ UNCHANGED <<render_no, city, current_aqi, components, lat, lon,
                 traffic_info, chart_df, frame, errors, sent, inflight, resp,
                 calls, exception, prev_had_traffic>>

\* line 205
HaveCoordinates == lat # None /\ lon # None

\* lines 205-218: the AQI card
MainAqiCard ==
  /\ pc = "main"
  /\ HaveCoordinates
  /\ LET o == AqiColor(current_aqi) IN
     IF o.raised # None
     THEN /\ Abort(o.raised[1], 212)
          /\ UNCHANGED shown
     ELSE /\ pc' = "traffic_call"
          /\ shown' = shown \cup {"aqi_card"}
          /\ UNCHANGED exception
  /\ UNCHANGED <<render_no, city, current_aqi, historical_aqi_df, components,
                 lat, lon, traffic_info, last_7_days, chart_df, frame, errors,
                 sent, inflight, resp, calls, prev_had_traffic>>

\* lines 278-279
MainUnavailable ==
  /\ pc = "main"
  /\ ~HaveCoordinates
  /\ pc' = "done"
  /\ errors' = errors \o Tag("<module>", <<UnableMsg>>)
  /\ UNCHANGED <<render_no, city, current_aqi, historical_aqi_df, components,
                 lat, lon, traffic_info, last_7_days, chart_df, shown, frame,
                 sent, inflight, resp, calls, exception, prev_had_traffic>>

\* line 222 -> lines 51-63
TrafficRequest ==
  /\ pc = "traffic_call"
  /\ pc' = "traffic_wait"
  /\ calls' = Append(calls, Ev("call", "get_traffic_data"))
  /\ sent' = Append(sent, TrafficRequestParams(lat[1], lon[1]))
  /\ inflight' = inflight \cup {"directions"}
  /\ UNCHANGED <<render_no, city, current_aqi, historical_aqi_df, components,
                 lat, lon, traffic_info, last_7_days, chart_df, shown, frame,
                 errors, resp, exception, prev_had_traffic>>

\* lines 63-88, the assignment on line 222 and the cards of lines 223-239
TrafficReturn(response) ==
  LET o == get_traffic_data(response) IN
  /\ pc = "traffic_wait"
  /\ inflight' = inflight \ {"directions"}
  /\ resp' = [resp EXCEPT !["directions"] = Some(response)]
  /\ errors' = errors \o Tag("get_traffic_data", o.errs)
  /\ IF o.raised # None
     THEN /\ Abort(o.raised[1], 222)
          /\ calls' = Append(calls, Ev("raise", "get_traffic_data"))
          /\ UNCHANGED <<traffic_info, shown>>
     ELSE /\ pc' = "map"
          /\ calls' = Append(calls, Ev("return", "get_traffic_data"))
          /\ traffic_info' = o.ret[1]
          /\ shown' = shown \cup {IF o.ret[1] # None THEN "traffic"
                                  ELSE "traffic_unavailable"}
          /\ UNCHANGED exception
  /\ UNCHANGED <<render_no, city, current_aqi, historical_aqi_df, components,
                 lat, lon, last_7_days, chart_df, frame, sent,
                 prev_had_traffic>>

TrafficResponse == \E r \in RoutingResponses : TrafficReturn(r)

\* lines 241-277: map marker, pollutant bar chart, history line chart
MapAndCharts ==
  /\ pc = "map"
  /\ LET o == AqiColor(current_aqi) IN
     IF o.raised # None
     THEN /\ Abort(o.raised[1], 248)
          /\ UNCHANGED <<shown, historical_aqi_df, chart_df>>
     ELSE /\ pc' = "done"
          /\ UNCHANGED exception
          /\ IF Len(historical_aqi_df) > 0
             THEN /\ historical_aqi_df' = ConvertTimestamps(historical_aqi_df)
                  /\ chart_df' = Some(historical_aqi_df')
             ELSE UNCHANGED <<historical_aqi_df, chart_df>>
          /\ shown' = shown \cup {"map"}
               \cup (IF components # None THEN {"pollutants"} ELSE {})
               \cup {IF Len(historical_aqi_df) > 0 THEN "history"
                     ELSE "history_unavailable"}
  /\ UNCHANGED <<render_no, city, current_aqi, components, lat, lon,
                 traffic_info, last_7_days, frame, errors, sent, inflight,
                 resp, calls, prev_had_traffic>>

Next ==
  \/ StartRender
  \/ AqiRequest
  \/ AqiResponse
  \/ GeocodeRequest
  \/ GeocodeResponse
  \/ PollutionRequest
  \/ PollutionResponse
  \/ Sidebar
  \/ MainAqiCard
  \/ MainUnavailable
  \/ TrafficRequest
  \/ TrafficResponse
  \/ MapAndCharts

Spec == Init /\ [][Next]_vars


(* ===================== properties of the program ======================= *)
Count(ep) == Cardinality({i \in 1..Len(sent) : sent[i].ep = ep})
Called(fn) == \E i \in 1..Len(calls) : calls[i] = Ev("call", fn)
Returned(fn) == \E i \in 1..Len(calls) : calls[i] = Ev("return", fn)
Raised(fn) == \E i \in 1..Len(calls) : calls[i] = Ev("raise", fn)
MsgsOf(fn) ==
  LET ByFn(e) == e.fn = fn
      es == SelectSeq(errors, ByFn)
  IN [i \in 1..Len(es) |-> es[i].msg]
Got(ep) == resp[ep] # None /\ "json" \in DOMAIN resp[ep][1]
Json(ep) == resp[ep][1].json
Upstream == Json("feed").data.forecast.daily.pm25
AqiOk ==
  /\ Got("feed")
  /\ "status" \in DOMAIN Json("feed")
  /\ Json("feed").status = "ok"
  /\ "forecast" \in DOMAIN Json("feed").data
BeforeSidebar == "aqi_levels" \notin shown

\* the four not-found / malformed-response causes
CityUnresolved == Got("weather") /\ "coord" \notin DOMAIN Json("weather")
PollutionMissing ==
  /\ Got("air_pollution")
  /\ ("list" \notin DOMAIN Json("air_pollution")
        \/ Len(Json("air_pollution").list) = 0)
NoRouteFeature ==
  /\ Got("directions")
  /\ ("features" \notin DOMAIN Json("directions")
        \/ Len(Json("directions").features) = 0)
AqiStatusNotOk ==
  /\ Got("feed")
  /\ "status" \in DOMAIN Json("feed")
  /\ Json("feed").status # "ok"

\* C1: whenever get_pollution_data has returned, its three outputs are all
\* present (mapping, latitude, longitude) or all absent; never a partial
\* result, whatever the city and the geocode / pollution response shapes.
C1_CompleteOrAbsent ==
  Returned("get_pollution_data") =>
    \/ components # None /\ lat # None /\ lon # None
    \/ components = None /\ lat = None /\ lon = None

\* geocoding succeeded, the pollution list was missing or empty, and the
\* function returned
C1_Witness ==
  /\ Returned("get_pollution_data")
  /\ PollutionMissing
  /\ components = None

\* C2: get_traffic_data never raises to its caller.  Once the routing
\* request has completed (response or transport exception) the function has
\* returned either a record with exactly duration, distance,
\* expected_duration and congestion, or None together with an error message;
\* no route feature gives None plus the "no route found" message, and a
\* transport exception gives None plus a failure message.
C2_TrafficNeverRaises ==
  resp["directions"] # None =>
    /\ ~Raised("get_traffic_data")
    /\ Returned("get_traffic_data")
    /\ traffic_info # None =>
         DOMAIN traffic_info[1] =
           {"duration", "distance", "expected_duration", "congestion"}
    /\ traffic_info = None => Len(MsgsOf("get_traffic_data")) = 1
    /\ NoRouteFeature =>
         traffic_info = None /\ MsgsOf("get_traffic_data") = <<NoRouteMsg>>
    /\ "exc" \in DOMAIN resp["directions"][1] =>
         /\ traffic_info = None
         /\ MsgsOf("get_traffic_data") =
              <<TrafficFailedMsg(resp["directions"][1].exc)>>

\* the routing request failed at the transport level and the render went on
C2_Witness ==
  /\ resp["directions"] # None
  /\ "exc" \in DOMAIN resp["directions"][1]
  /\ Returned("get_traffic_data")
  /\ pc = "done"

\* C3: a first route feature with distance = 0 (expected_duration = 0) is
\* handled without a crash: nothing escapes get_traffic_data and the result
\* is None, never a record carrying a congestion value.
ZeroDistanceRoute ==
  /\ Got("directions")
  /\ "features" \in DOMAIN Json("directions")
  /\ Len(Json("directions").features) > 0
  /\ "summary" \in DOMAIN Json("directions").features[1].properties
  /\ Json("directions").features[1].properties.summary.distance = 0

C3_ZeroDistanceHandled ==
  ZeroDistanceRoute =>
    /\ ~Raised("get_traffic_data")
    /\ Returned("get_traffic_data")
    /\ traffic_info = None
    /\ "traffic" \notin shown

C3_Witness ==
  /\ ZeroDistanceRoute
  /\ Json("directions").features[1].properties.summary.duration > 0
  /\ Returned("get_traffic_data")
  /\ MsgsOf("get_traffic_data") = <<TrafficFailedMsg("ZeroDivisionError")>>

\* C4 (as claimed): status not "ok" gives (None, empty); status "ok" gives a
\* NON-EMPTY sequence with one (day, avg) sample per upstream entry in
\* upstream order.
RowsMatchUpstream ==
  /\ Len(historical_aqi_df) = Len(Upstream)
  /\ \A i \in 1..Len(Upstream) :
       historical_aqi_df[i] =
         [timestamp |-> Upstream[i].day, aqi |-> Upstream[i].avg]

CauseMsgs ==
  {CityNotFoundMsg, PollutionUnavailableMsg, NoRouteMsg, AqiFailedMsg}

C5_CausesDistinguishable ==
  /\ CityUnresolved => MsgsOf("get_pollution_data") = <<CityNotFoundMsg>>
  /\ PollutionMissing =>
       MsgsOf("get_pollution_data") = <<PollutionUnavailableMsg>>
  /\ NoRouteFeature => MsgsOf("get_traffic_data") = <<NoRouteMsg>>
  /\ AqiStatusNotOk => MsgsOf("get_historical_aqi") = <<AqiFailedMsg>>
  /\ \A i \in 1..Len(errors) :
       /\ errors[i].msg = CityNotFoundMsg => CityUnresolved
       /\ errors[i].msg = PollutionUnavailableMsg => PollutionMissing
       /\ errors[i].msg = NoRouteMsg => NoRouteFeature
       /\ errors[i].msg = AqiFailedMsg => AqiStatusNotOk
  /\ Cardinality(CauseMsgs) = 4

\* two different causes in one render: AQI status not ok and no pollution list
C5_Witness ==
  /\ AqiStatusNotOk
  /\ PollutionMissing
  /\ pc = "done"
  /\ Len(errors) = 3

\* C6: per render each fetch function is called at most once and calls do
\* not overlap; get_traffic_data is called only after get_pollution_data
\* returned in this render with present coordinates, and its origin is
\* exactly those coordinates (sent as lon, lat); when get_pollution_data
\* reports absence it is never called.
Fetchers == {"get_historical_aqi", "get_pollution_data", "get_traffic_data"}

C6_CallOrder ==
  /\ \A fn \in Fetchers :
       Cardinality({i \in 1..Len(calls) : calls[i] = Ev("call", fn)}) <= 1
  /\ \A i \in 1..Len(calls) :
       (calls[i].ev = "call" /\ i < Len(calls)) =>
         /\ calls[i + 1].fn = calls[i].fn
         /\ calls[i + 1].ev \in {"return", "raise"}
  /\ \A i \in 1..Len(calls) :
       calls[i] = Ev("call", "get_traffic_data") =>
         /\ \E j \in 1..(i - 1) : calls[j] = Ev("return", "get_pollution_data")
         /\ lat # None /\ lon # None
         /\ \A k \in 1..Len(sent) :
              sent[k].ep = "directions" =>
                /\ sent[k].start = <<lon[1], lat[1]>>
                /\ sent[k].end = <<lon[1] + 1, lat[1] + 1>>
  /\ (Returned("get_pollution_data") /\ (lat = None \/ lon = None)) =>
       (~Called("get_traffic_data") /\ Count("directions") = 0)

C6_Witness ==
  /\ Returned("get_traffic_data")
  /\ Len(calls) = 6
  /\ lat = Some(1908)
  /\ Count("directions") = 1

\* C7: no retry: per render each endpoint receives at most one request, at
\* most one request is in flight at any time, and once an endpoint has
\* answered (successfully or not) it has no request in flight and exactly
\* the one request that was answered.
C7_NoRetry ==
  /\ \A ep \in Endpoints : Count(ep) <= 1
  /\ Cardinality(inflight) <= 1
  /\ \A ep \in Endpoints :
       resp[ep] # None => (ep \notin inflight /\ Count(ep) = 1)
  /\ \A ep \in inflight : Count(ep) = 1 /\ resp[ep] = None

\* a render that ended after the geocode lookup failed to resolve the city
C7_Witness ==
  /\ CityUnresolved
  /\ pc = "done"
  /\ Count("weather") = 1
  /\ Count("air_pollution") = 0

\* C8: the outputs of a finished render are a function of the responses
\* received in that render only (the city enters only the requests): they
\* equal what the three fetch functions compute from this render's
\* responses, whatever an earlier render produced.
ExpAqi == get_historical_aqi(resp["feed"][1])
ExpGeo == GeocodeStep(resp["weather"][1])
ExpPol == PollutionStep(ExpGeo.lat, ExpGeo.lon, resp["air_pollution"][1])
ExpPollution ==
  IF resp["weather"] = None \/ ExpGeo.raised # None THEN PollutionAbsent
  ELSE IF ExpGeo.ret # None THEN ExpGeo.ret[1]
  ELSE IF resp["air_pollution"] = None \/ ExpPol.raised # None
       THEN PollutionAbsent
  ELSE ExpPol.ret[1]
ExpTraffic ==
  IF resp["directions"] = None THEN None
  ELSE get_traffic_data(resp["directions"][1]).ret[1]
ExpErrors ==
  Tag("get_historical_aqi", ExpAqi.errs)
  \o (IF resp["weather"] = None THEN <<>>
      ELSE Tag("get_pollution_data", ExpGeo.errs))
  \o (IF resp["air_pollution"] = None THEN <<>>
      ELSE Tag("get_pollution_data", ExpPol.errs))
  \o (IF pc = "done" /\ ExpPollution.lat = None
      THEN Tag("<module>", <<UnableMsg>>) ELSE <<>>)
  \o (IF resp["directions"] = None THEN <<>>
      ELSE Tag("get_traffic_data", get_traffic_data(resp["directions"][1]).errs))

C8_Memoryless ==
  (pc \in {"done", "aborted"}) =>
    /\ current_aqi =
         (IF ExpAqi.raised # None THEN None ELSE ExpAqi.ret[1].current_aqi)
    /\ ConvertTimestamps(historical_aqi_df) =
         (IF ExpAqi.raised # None THEN EmptyDataFrame
          ELSE ConvertTimestamps(ExpAqi.ret[1].df))
    /\ components = ExpPollution.components
    /\ lat = ExpPollution.lat
    /\ lon = ExpPollution.lon
    /\ traffic_info = ExpTraffic
    /\ errors = ExpErrors
    /\ \A i \in 1..Len(sent) :
         /\ sent[i].ep = "feed" => sent[i].city = city
         /\ sent[i].ep = "weather" => sent[i].q = city

\* a later render that found no coordinates, after a render that had
\* produced a traffic record
C8_Witness ==
  /\ render_no >= 2
  /\ pc = "done"
  /\ prev_had_traffic
  /\ traffic_info = None
  /\ lat = None
  /\ current_aqi = None

\* C9: the sidebar window is exactly the final min(n, 7) rows of the
\* n-row history, in their original order (the final 7 of 16), and the full
\* history given to the main trend chart keeps the upstream length and order.
C9_LastSevenWindow ==
  /\ last_7_days # None =>
       LET w == last_7_days[1]
           n == Len(historical_aqi_df)
       IN /\ n = Len(Upstream)
          /\ Len(w) = Min(n, 7)
          /\ \A i \in 1..Len(w) :
               /\ w[i] = historical_aqi_df[n - Len(w) + i]
               /\ w[i].aqi = Upstream[n - Len(w) + i].avg
               /\ w[i].timestamp = to_datetime(Upstream[n - Len(w) + i].day)
  /\ chart_df # None =>
       /\ Len(chart_df[1]) = Len(Upstream)
       /\ \A i \in 1..Len(Upstream) :
            /\ chart_df[1][i].aqi = Upstream[i].avg
            /\ chart_df[1][i].timestamp = to_datetime(Upstream[i].day)

\* a 16-row history windowed to 7 rows and then drawn in full
C9_Witness ==
  /\ last_7_days # None
  /\ chart_df # None
  /\ Len(Upstream) = 16
  /\ Len(last_7_days[1]) = 7
  /\ Len(chart_df[1]) = 16

\* C10: a render with an absent current AQI (status not "ok") and present
\* coordinates is not aborted by an unhandled error, and when it ends the
\* traffic, map and pollutant sections have all been reached.
C10_RenderSurvivesAbsentAqi ==
  (AqiStatusNotOk /\ Returned("get_historical_aqi")
     /\ current_aqi = None /\ HaveCoordinates) =>
    /\ pc # "aborted"
    /\ pc = "done" =>
         /\ {"map", "pollutants"} \subseteq shown
         /\ ("traffic" \in shown \/ "traffic_unavailable" \in shown)

====
